---------------------------- MODULE Spec2Model ----------------------------
(***************************************************************************)
(* A model of the Renpho BLE client (RenphoBLEClient) and of the data      *)
(* update coordinator that drives it (RenphoDataUpdateCoordinator).        *)
(*                                                                         *)
(* Every coroutine is cut at its awaits: an action runs from one await to  *)
(* the next, as the asyncio event loop does.  The BLE transport (bleak) is *)
(* the environment: each transport call is in flight from the step that    *)
(* issues it to the step that completes it, and completes with a result    *)
(* the environment chooses.                                                *)
(***************************************************************************)
EXTENDS Integers, Sequences, FiniteSets, TLC

VARIABLES
    \* RenphoBLEClient fields
    client,                  \* self.client is not None
    connected,               \* self._connected
    lock,                    \* self._connection_lock: NoTask, or the task that holds it
    use_first_type,          \* self.use_first_type
    final_measure_received,  \* self.final_measure_received
    weight_scale,            \* self.weight_scale (10 or 100)
    seen_protocol_type,      \* self.seen_protocol_type
    \* the transport
    subscribed,              \* characteristics whose notifications are started
    \* the tasks that call the client
    pc,                      \* where each task is
    inflight,                \* the transport call each task awaits
    stale,                   \* the awaited call was issued on a client since torn down
    unit,                    \* the weight_unit argument of each task's call
    ret,                     \* what each task's last call returned
    log,                     \* the transport calls of each task's current start_measurement
    last,                    \* the transport call of that start_measurement that completed
                             \* last, and whether it succeeded
    \* fire-and-forget replies (asyncio.create_task(self._send_response(..)))
    replies,
    \* RenphoDataUpdateCoordinator fields
    rstate,                  \* where _async_update_data is, or how it ended
    rresult,                 \* what _async_update_data returned
    measurement_event,       \* self._measurement_event.is_set()
    measurement_data,        \* self._measurement_data
    \* history
    cbCount,                 \* callback invocations since the last start_measurement call
    detection,               \* the detection of this connection: "none", "probing" (a
                             \* probe write was issued) or "done" (one has completed)
    early,                   \* the stored measurement was emitted while the refresh had
                             \* not yet issued its request write
    \* the frame codec on its own
    cmd, ptype, payload, frame, decoded,
    \* _calculate_impedance on its own
    resistance1,             \* its argument
    impedance,               \* <<v>>: what it returned, in tenths of an ohm; <<>> before
    \* what the notification handler has been given (history)
    heard,                   \* <<data>>: the frame delivered last; <<>> before any
    was_latched,             \* self.final_measure_received when that frame arrived
    first_pt,                \* <<b>>: the protocol_type byte of the first frame of 3
                             \* bytes or more; <<>> before any
    armed                    \* a not-final weight frame was handled and the callback
                             \* has not been invoked since

clientVars == <<client, connected, lock, use_first_type, final_measure_received,
                weight_scale, seen_protocol_type>>
taskVars   == <<pc, inflight, stale, unit, ret, log, last>>
coordVars  == <<rstate, rresult, measurement_event, measurement_data>>
histVars   == <<cbCount, detection, early>>
codecVars  == <<cmd, ptype, payload, frame, decoded>>
calcVars   == <<resistance1, impedance>>
obsVars    == <<heard, was_latched, first_pt, armed>>
vars == <<clientVars, subscribed, taskVars, replies, coordVars, histVars, codecVars,
          calcVars, obsVars>>

---------------------------------------------------------------------------
(* Bounds *)

MaxReplies   == 1     \* reply tasks scheduled and not yet finished
CountCap     == 2     \* history counters saturate here ("this many or more")
MaxPayload   == 2     \* payload bytes given to _build_message on its own

\* The tasks that call the client: the one that runs the coordinator's
\* _async_update_data, and one other caller.
Coord == "coordinator"
Tasks == {Coord, "caller"}
NoTask == "none"

---------------------------------------------------------------------------
(* Characteristics (renpho_ble_client.py, lines 25-35) *)

FFE1 == "ffe1"
FFE2 == "ffe2"
FFE3 == "ffe3"
FFE4 == "ffe4"
FFF1 == "fff1"
FFF2 == "fff2"

---------------------------------------------------------------------------
(* Frame codec *)

RECURSIVE SumSeq(_)
SumSeq(s) == IF s = <<>> THEN 0 ELSE s[1] + SumSeq(Tail(s))

\* bytearray(..) accepts only values in range(256)
BuildMessageRaises(c, p, pl) ==
    \/ Len(pl) + 4 > 255
    \/ c \notin 0..255
    \/ p \notin 0..255
    \/ \E i \in 1..Len(pl) : pl[i] \notin 0..255

\* _build_message with a checksum that also adds the byte it overwrites
BuildMessageSumAll(c, p, pl) ==
    LET msg      == <<c, Len(pl) + 4, p>> \o pl
        checksum == SumSeq(msg) % 256
    IN  [msg EXCEPT ![Len(msg)] = checksum]

\* msg = bytearray([cmd, len(payload) + 4, protocol_type] + list(payload))
\* msg[-1] = sum(msg[:-1]) & 0xff
BuildMessage(c, p, pl) ==
    LET msg      == <<c, Len(pl) + 4, p>> \o pl
        checksum == SumSeq(SubSeq(msg, 1, Len(msg) - 1)) % 256
    IN  [msg EXCEPT ![Len(msg)] = checksum]

\* data[i], Python's 0-based index
At(data, i) == data[i + 1]

\* command = data[0] & 0xff; protocol_type = data[2] & 0xff
DecodeHeader(data) == <<At(data, 0) % 256, At(data, 2) % 256>>

---------------------------------------------------------------------------
(* start_measurement: the order of its transport calls *)

NoOp == [op |-> "none", char |-> "none", msg |-> <<>>]

\* bytes([0x02]) + struct.pack("<I", timestamp): the command byte; the four
\* bytes of the clock are left out
TimeMessage == <<2>>

\* weight_unit_byte = 0x01 if weight_unit.lower() == "kg" else 0x02
UnitByte(u) == IF u = "kg" THEN 1 ELSE 2

Min(a, b) == IF a < b THEN a ELSE b

\* An order of the steps that sends the weight request straight after the probe
StepAfterRequestFirst(step, uft) ==
    CASE step = "probe"     -> "request"
      [] step = "request"   -> IF uft THEN "sub_ffe1" ELSE "sub_fff1"
      [] step = "sub_ffe1"  -> "sub_ffe2"
      [] step = "sub_ffe2"  -> "time_sync"
      [] step = "sub_fff1"  -> "time_sync"
      [] step = "time_sync" -> "return"

\* The step that follows `step` in start_measurement when `step` did not
\* raise; uft is self.use_first_type as _setup_notifications reads it.
StepAfter(step, uft) ==
    CASE step = "probe"     -> IF uft THEN "sub_ffe1" ELSE "sub_fff1"
      [] step = "sub_ffe1"  -> "sub_ffe2"
      [] step = "sub_ffe2"  -> "request"
      [] step = "sub_fff1"  -> "request"
      [] step = "request"   -> "time_sync"
      [] step = "time_sync" -> "return"

\* The transport call a step makes; uft and spt are self.use_first_type and
\* self.seen_protocol_type as the step reads them, u the call's weight_unit.
OpOf(step, uft, spt, u) ==
    CASE step = "probe"     -> [op |-> "write", char |-> FFE4, msg |-> TimeMessage]
      [] step = "sub_ffe1"  -> [op |-> "subscribe", char |-> FFE1, msg |-> <<>>]
      [] step = "sub_ffe2"  -> [op |-> "subscribe", char |-> FFE2, msg |-> <<>>]
      [] step = "sub_fff1"  -> [op |-> "subscribe", char |-> FFF1, msg |-> <<>>]
      [] step = "request"   ->
            [op |-> "write", char |-> IF uft THEN FFE3 ELSE FFF2,
             msg |-> BuildMessage(19, spt, <<UnitByte(u), 16, 0, 0, 0>>)]
      [] step = "time_sync" ->
            [op |-> "write", char |-> IF uft THEN FFE4 ELSE FFF2, msg |-> TimeMessage]

\* A probe that records the primary variant whatever the write did
ProbeVariantAlwaysPrimary(ok) == TRUE

\* _try_protocol_type: the variant recorded for a probe write that succeeded
\* (ok) or raised
ProbeVariant(ok) == ok

\* An except clause that lets a failed time-sync write pass
PropagatesButTimeSync(step, ok) == step \notin {"probe", "time_sync"} /\ ~ok

\* Whether a transport call that raised in `step` ends start_measurement:
\* _try_protocol_type catches its own exception, the other steps raise into
\* start_measurement's except clause, which returns False.
Propagates(step, ok) == step # "probe" /\ ~ok

\* The task issues the transport call of `step` and awaits it.
Issue(t, step, uft, spt) ==
    /\ pc' = [pc EXCEPT ![t] = step]
    /\ inflight' = [inflight EXCEPT ![t] = OpOf(step, uft, spt, unit[t])]
    /\ stale' = [stale EXCEPT ![t] = FALSE]
    /\ log' = [log EXCEPT ![t] = @ \o <<[step |-> step,
                                          char |-> OpOf(step, uft, spt, unit[t]).char]>>]

\* start_measurement returns `success`; in the coordinator's task
\* _async_update_data goes on from its await (sensor.py, lines 107-113).
Finish(t, success) ==
    /\ inflight' = [inflight EXCEPT ![t] = NoOp]
    /\ log' = [log EXCEPT ![t] = <<>>]
    /\ unit' = [unit EXCEPT ![t] = "kg"]
    /\ stale' = [stale EXCEPT ![t] = FALSE]
    /\ ret' = [ret EXCEPT ![t] = IF success THEN "true" ELSE "false"]
    /\ IF t = Coord /\ rstate = "starting"
          THEN /\ rstate' = IF success THEN "waiting" ELSE "start_failed"
               /\ pc' = [pc EXCEPT ![t] = IF success THEN "refresh_wait" ELSE "idle"]
          ELSE /\ rstate' = rstate
               /\ pc' = [pc EXCEPT ![t] = "idle"]

\* The transport call of pc[t] completed (ok) or raised: start_measurement
\* returns False, returns True, or issues its next call.
Continue(t, ok, uft, spt) ==
    /\ last' = [last EXCEPT ![t] = [step |-> pc[t], ok |-> ok]]
    /\ IF Propagates(pc[t], ok)
          THEN Finish(t, FALSE)
          ELSE IF StepAfter(pc[t], uft) = "return"
                 THEN Finish(t, TRUE)
                 ELSE /\ Issue(t, StepAfter(pc[t], uft), uft, spt)
                      /\ UNCHANGED <<ret, rstate, unit>>

NoLast == [step |-> "none", ok |-> TRUE]

\* A start_measurement without the check of the connection
EnterNoCheck(t, u) ==
    /\ cbCount' = 0
    /\ last' = [last EXCEPT ![t] = NoLast]
    /\ unit' = [unit EXCEPT ![t] = u]
    /\ ret' = [ret EXCEPT ![t] = "none"]
    /\ detection' = IF detection = "none" THEN "probing" ELSE detection
    /\ Issue(t, "probe", use_first_type, seen_protocol_type)

\* start_measurement from its first line to its first await: returns False
\* when not connected, else issues the probe write of _try_protocol_type.
Enter(t, u) ==
    /\ cbCount' = 0
    /\ last' = [last EXCEPT ![t] = NoLast]
    /\ IF ~connected \/ ~client
          THEN /\ ret' = [ret EXCEPT ![t] = "false"]
               /\ UNCHANGED <<pc, inflight, stale, unit, log, detection>>
          ELSE /\ unit' = [unit EXCEPT ![t] = u]
               /\ ret' = [ret EXCEPT ![t] = "none"]
               /\ detection' = IF detection = "none" THEN "probing" ELSE detection
               /\ Issue(t, "probe", use_first_type, seen_protocol_type)

---------------------------------------------------------------------------
(* RenphoBLEClient.start_measurement *)

\* A task calls start_measurement(weight_unit).
StartMeasurement(t, u) ==
    /\ pc[t] = "idle"
    /\ Enter(t, u)
    /\ UNCHANGED <<clientVars, subscribed, replies, coordVars, early, codecVars, calcVars,
                   obsVars>>

\* The values of pc inside start_measurement, one per awaited transport call
MeasureSteps == {"probe", "sub_ffe1", "sub_ffe2", "sub_fff1", "request", "time_sync"}

\* _try_protocol_type: the probe write completed or raised; then
\* _setup_notifications reads the variant and starts its first subscription.
ProbeDone(t, ok) ==
    /\ pc[t] = "probe"
    /\ ok => ~stale[t]
    /\ use_first_type' = ProbeVariant(ok)
    /\ detection' = IF stale[t] THEN detection ELSE "done"
    /\ Continue(t, ok, use_first_type', seen_protocol_type)
    /\ UNCHANGED <<client, connected, lock, final_measure_received, weight_scale,
                   seen_protocol_type, subscribed, replies, rresult, measurement_event,
                   measurement_data, cbCount, early, codecVars, calcVars, obsVars>>

\* _setup_notifications: a start_notify completed or raised.
SubscribeDone(t, ok) ==
    /\ pc[t] \in {"sub_ffe1", "sub_ffe2", "sub_fff1"}
    /\ ok => ~stale[t]
    /\ subscribed' = IF ok THEN subscribed \cup {inflight[t].char} ELSE subscribed
    /\ Continue(t, ok, use_first_type, seen_protocol_type)
    /\ UNCHANGED <<clientVars, replies, rresult, measurement_event, measurement_data,
                   histVars, codecVars, calcVars, obsVars>>

\* _send_weight_request: the request write completed or raised.
RequestDone(t, ok) ==
    /\ pc[t] = "request"
    /\ ok => ~stale[t]
    /\ Continue(t, ok, use_first_type, seen_protocol_type)
    /\ UNCHANGED <<clientVars, subscribed, replies, rresult, measurement_event,
                   measurement_data, histVars, codecVars, calcVars, obsVars>>

\* _send_time_magic: the time-sync write completed or raised.
TimeSyncDone(t, ok) ==
    /\ pc[t] = "time_sync"
    /\ ok => ~stale[t]
    /\ Continue(t, ok, use_first_type, seen_protocol_type)
    /\ UNCHANGED <<clientVars, subscribed, replies, rresult, measurement_event,
                   measurement_data, histVars, codecVars, calcVars, obsVars>>

---------------------------------------------------------------------------
(* RenphoBLEClient.connect and disconnect *)

\* The calls other tasks await were issued on a client that is now torn down
\* or replaced: they can only raise.
Orphan(t) == [u \in Tasks |-> IF u # t /\ inflight[u].op # "none" THEN TRUE ELSE stale[u]]

\* connect, inside the lock, up to its await
ConnectLocked(t) ==
    IF connected
      THEN /\ ret' = [ret EXCEPT ![t] = "true"]
           /\ pc' = [pc EXCEPT ![t] = "idle"]
           /\ UNCHANGED <<client, lock, inflight, stale>>
      ELSE /\ client' = TRUE
           /\ lock' = t
           /\ pc' = [pc EXCEPT ![t] = "connecting"]
           /\ inflight' = [inflight EXCEPT ![t] =
                              [op |-> "connect", char |-> "none", msg |-> <<>>]]
           /\ stale' = Orphan(t)
           /\ ret' = [ret EXCEPT ![t] = "none"]

\* A connect that does not take self._connection_lock
ConnectCallNoLock(t) ==
    /\ pc[t] = "idle"
    /\ last' = [last EXCEPT ![t] = NoLast]
    /\ ConnectLocked(t)
    /\ UNCHANGED <<connected, use_first_type, final_measure_received, weight_scale,
                   seen_protocol_type, subscribed, unit, log, replies, coordVars,
                   histVars, codecVars, calcVars, obsVars>>

\* connect is called: it takes the lock, or waits for it
ConnectCall(t) ==
    /\ pc[t] = "idle"
    /\ last' = [last EXCEPT ![t] = NoLast]
    /\ IF lock # NoTask
          THEN /\ pc' = [pc EXCEPT ![t] = "connect_wait"]
               /\ ret' = [ret EXCEPT ![t] = "none"]
               /\ UNCHANGED <<client, lock, inflight, stale>>
          ELSE ConnectLocked(t)
    /\ UNCHANGED <<connected, use_first_type, final_measure_received, weight_scale,
                   seen_protocol_type, subscribed, unit, log, replies, coordVars,
                   histVars, codecVars, calcVars, obsVars>>

\* connect gets the lock it waited for
ConnectAcquire(t) ==
    /\ pc[t] = "connect_wait"
    /\ lock = NoTask
    /\ ConnectLocked(t)
    /\ UNCHANGED <<connected, use_first_type, final_measure_received, weight_scale,
                   seen_protocol_type, subscribed, unit, log, last, replies, coordVars,
                   histVars, codecVars, calcVars, obsVars>>

\* self.client.connect() completed, raised BleakError, or raised something else
ConnectDone(t, res) ==
    /\ pc[t] = "connecting"
    /\ lock' = NoTask
    /\ pc' = [pc EXCEPT ![t] = "idle"]
    /\ inflight' = [inflight EXCEPT ![t] = NoOp]
    /\ connected' = (res = "ok")
    /\ ret' = [ret EXCEPT ![t] = CASE res = "ok" -> "true"
                                    [] res = "bleak_error" -> "false"
                                    [] OTHER -> "raised"]
    /\ subscribed' = IF res = "ok" THEN {} ELSE subscribed
    /\ detection' = IF res = "ok" THEN "none" ELSE detection
    /\ UNCHANGED <<client, use_first_type, final_measure_received, weight_scale,
                   seen_protocol_type, stale, unit, log, last, replies, coordVars,
                   cbCount, early, codecVars, calcVars, obsVars>>

\* disconnect, inside the lock, up to its await
DisconnectLocked(t) ==
    IF client /\ connected
      THEN /\ lock' = t
           /\ pc' = [pc EXCEPT ![t] = "disconnecting"]
           /\ inflight' = [inflight EXCEPT ![t] =
                              [op |-> "disconnect", char |-> "none", msg |-> <<>>]]
           /\ ret' = [ret EXCEPT ![t] = "none"]
      ELSE /\ ret' = [ret EXCEPT ![t] = "returned"]
           /\ pc' = [pc EXCEPT ![t] = "idle"]
           /\ UNCHANGED <<lock, inflight>>

\* disconnect is called: it takes the lock, or waits for it
DisconnectCall(t) ==
    /\ pc[t] = "idle"
    /\ last' = [last EXCEPT ![t] = NoLast]
    /\ IF lock # NoTask
          THEN /\ pc' = [pc EXCEPT ![t] = "disconnect_wait"]
               /\ ret' = [ret EXCEPT ![t] = "none"]
               /\ UNCHANGED <<lock, inflight>>
          ELSE DisconnectLocked(t)
    /\ UNCHANGED <<client, connected, use_first_type, final_measure_received, weight_scale,
                   seen_protocol_type, subscribed, stale, unit, log, replies,
                   coordVars, histVars, codecVars, calcVars, obsVars>>

\* disconnect gets the lock it waited for
DisconnectAcquire(t) ==
    /\ pc[t] = "disconnect_wait"
    /\ lock = NoTask
    /\ DisconnectLocked(t)
    /\ UNCHANGED <<client, connected, use_first_type, final_measure_received, weight_scale,
                   seen_protocol_type, subscribed, stale, unit, log, last, replies,
                   coordVars, histVars, codecVars, calcVars, obsVars>>

\* A disconnect without the finally clause: a teardown that raised leaves the
\* client marked connected
DisconnectDoneNoFinally(t, res) ==
    /\ pc[t] = "disconnecting"
    /\ lock' = NoTask
    /\ pc' = [pc EXCEPT ![t] = "idle"]
    /\ inflight' = [inflight EXCEPT ![t] = NoOp]
    /\ connected' = (res # "ok")
    /\ ret' = [ret EXCEPT ![t] = IF res \in {"ok", "bleak_error"} THEN "returned"
                                  ELSE "raised"]
    /\ subscribed' = IF res = "ok" THEN {} ELSE subscribed
    /\ stale' = IF res = "ok" THEN Orphan(t) ELSE stale
    /\ detection' = "none"
    /\ UNCHANGED <<client, use_first_type, final_measure_received, weight_scale,
                   seen_protocol_type, unit, log, last, replies, coordVars,
                   cbCount, early, codecVars, calcVars, obsVars>>

\* self.client.disconnect() completed, raised BleakError, or raised something
\* else; the finally clause marks the client not connected in each case.
DisconnectDone(t, res) ==
    /\ pc[t] = "disconnecting"
    /\ lock' = NoTask
    /\ pc' = [pc EXCEPT ![t] = "idle"]
    /\ inflight' = [inflight EXCEPT ![t] = NoOp]
    /\ connected' = FALSE
    /\ ret' = [ret EXCEPT ![t] = IF res \in {"ok", "bleak_error"} THEN "returned"
                                  ELSE "raised"]
    /\ subscribed' = IF res = "ok" THEN {} ELSE subscribed
    /\ stale' = IF res = "ok" THEN Orphan(t) ELSE stale
    /\ detection' = "none"
    /\ UNCHANGED <<client, use_first_type, final_measure_received, weight_scale,
                   seen_protocol_type, unit, log, last, replies, coordVars,
                   cbCount, early, codecVars, calcVars, obsVars>>

---------------------------------------------------------------------------
(* Notification handling: _parse_custom1_data and its handlers *)

Max(a, b) == IF a > b THEN a ELSE b

\* ((byte1 & 0xff) << 8) + (byte2 & 0xff)
DecodeIntegerValue(b1, b2) == (b1 % 256) * 256 + (b2 % 256)

\* A decode without the further division by 10 of the alternative variant
DecodeWeightNoAlt(b1, b2, ws, uft) ==
    DecodeIntegerValue(b1, b2) * (1000 \div ws)

\* _decode_weight, and the further division by 10 of the alternative variant;
\* the weight in thousandths of a kilogram (ws is 10 or 100, so this is exact)
DecodeWeight(b1, b2, ws, uft) ==
    (DecodeIntegerValue(b1, b2) * (1000 \div ws)) \div (IF uft THEN 1 ELSE 10)

\* An impedance whose linear part starts at 400
CalculateImpedanceFrom400(resistance) ==
    IF resistance < 400 THEN 30 ELSE 3 * (resistance - 400)

\* _calculate_impedance, in tenths of an ohm
CalculateImpedance(resistance) ==
    IF resistance < 410 THEN 30 ELSE 3 * (resistance - 400)

\* A layout whose done_state is 1 for every protocol type
WeightLayoutOneDoneState(pt) ==
    IF pt = 255
      THEN [done_state |-> 1, done_offset |-> 4, weight_offset |-> 5, resist_offset |-> 7]
      ELSE [done_state |-> 1, done_offset |-> 5, weight_offset |-> 3, resist_offset |-> 6]

\* the offsets _parse_weight_measurement reads, by protocol type
WeightLayout(pt) ==
    IF pt = 255
      THEN [done_state |-> 2, done_offset |-> 4, weight_offset |-> 5, resist_offset |-> 7]
      ELSE [done_state |-> 1, done_offset |-> 5, weight_offset |-> 3, resist_offset |-> 6]

\* A length test that looks at the done byte's offset only
WeightTooShortDoneOnly(data, L) == Len(data) <= L.done_offset

\* A length test that lets a frame through when it ends at the highest offset
WeightTooShortStrict(data, L) ==
    Len(data) < Max(L.done_offset, Max(L.weight_offset + 1, L.resist_offset + 3))

\* len(data) <= max(done_offset, weight_offset + 1, resist_offset + 3)
WeightTooShort(data, L) ==
    Len(data) <= Max(L.done_offset, Max(L.weight_offset + 1, L.resist_offset + 3))

\* The Measurement handed to the callback (its timestamp left out)
MeasurementOf(data, L, ws, uft) ==
    [weight      |-> DecodeWeight(At(data, L.weight_offset), At(data, L.weight_offset + 1),
                                  ws, uft),
     resistance1 |-> DecodeIntegerValue(At(data, L.resist_offset),
                                        At(data, L.resist_offset + 1)),
     resistance2 |-> DecodeIntegerValue(At(data, L.resist_offset + 2),
                                        At(data, L.resist_offset + 3)),
     impedance   |-> CalculateImpedance(
                        DecodeIntegerValue(At(data, L.resist_offset),
                                           At(data, L.resist_offset + 1)))]

\* A handler whose final branch does not test the latch
ParseWeightMeasurementNoLatch(data, pt, latch, ws, uft) ==
    LET L == WeightLayout(pt) IN
    IF WeightTooShort(data, L)
      THEN [latch |-> latch, emit |-> <<>>]
      ELSE LET done == At(data, L.done_offset) % 256 IN
           IF done = 0
             THEN [latch |-> FALSE, emit |-> <<>>]
             ELSE IF done = L.done_state
                    THEN [latch |-> TRUE,
                          emit  |-> IF DecodeWeight(At(data, L.weight_offset),
                                                    At(data, L.weight_offset + 1),
                                                    ws, uft) > 0
                                      THEN <<MeasurementOf(data, L, ws, uft)>>
                                      ELSE <<>>]
                    ELSE [latch |-> latch, emit |-> <<>>]

\* _parse_weight_measurement: the latch after the frame and the measurements
\* handed to the callback (none or one)
ParseWeightMeasurement(data, pt, latch, ws, uft) ==
    LET L == WeightLayout(pt) IN
    IF WeightTooShort(data, L)
      THEN [latch |-> latch, emit |-> <<>>]
      ELSE LET done == At(data, L.done_offset) % 256 IN
           IF done = 0
             THEN [latch |-> FALSE, emit |-> <<>>]
             ELSE IF done = L.done_state /\ ~latch
                    THEN [latch |-> TRUE,
                          emit  |-> IF DecodeWeight(At(data, L.weight_offset),
                                                    At(data, L.weight_offset + 1),
                                                    ws, uft) > 0
                                      THEN <<MeasurementOf(data, L, ws, uft)>>
                                      ELSE <<>>]
                    ELSE [latch |-> latch, emit |-> <<>>]

\* data[i] raises IndexError
IndexRaises(data, i) == i >= Len(data)

\* _parse_weight_measurement raises: a byte it reads is outside the frame
\* (lines 211, 221, 231, 232), or _decode_weight divides by zero (line 293)
ParseWeightRaises(data, pt, latch, ws, uft) ==
    LET L == WeightLayout(pt) IN
    IF WeightTooShort(data, L) THEN FALSE
    ELSE IF IndexRaises(data, L.done_offset) THEN TRUE
    ELSE LET done == At(data, L.done_offset) % 256 IN
         IF done # 0 /\ done = L.done_state /\ ~latch
           THEN IF IndexRaises(data, L.weight_offset + 1) \/ ws = 0 THEN TRUE
                ELSE /\ DecodeWeight(At(data, L.weight_offset),
                                     At(data, L.weight_offset + 1), ws, uft) > 0
                     /\ IndexRaises(data, L.resist_offset + 3)
           ELSE FALSE

\* A settings handler that does not look at the byte at offset 10
HandleScaleSettingsAlways100(data, ws) ==
    IF Len(data) > 10 THEN 100 ELSE ws

\* _handle_scale_settings: the weight scale after the frame
HandleScaleSettings(data, ws) ==
    IF Len(data) > 10 THEN (IF At(data, 10) % 256 = 1 THEN 100 ELSE 10) ELSE ws

\* A dispatch in which command 0x21 goes unanswered
ReplyForNo21(command, pt) ==
    CASE command = 18  -> <<BuildMessage(19, pt, <<1, 16, 0, 0, 0>>)>>
      [] command = 20  -> <<BuildMessage(32, pt, <<37, 116, 24, 48>>)>>
      [] command = 161 -> <<BuildMessage(34, pt, <<0, 1>>)>>
      [] OTHER         -> <<>>

\* The replies a frame's handler schedules (none or one), by command
ReplyFor(command, pt) ==
    CASE command = 18  -> <<BuildMessage(19, pt, <<1, 16, 0, 0, 0>>)>>
      [] command = 20  -> <<BuildMessage(32, pt, <<37, 116, 24, 48>>)>>
      [] command = 33  -> <<BuildMessage(160, 2, <<254, 255, 238, 1, 28, 6, 134, 3, 2>>)>>
      [] command = 161 -> <<BuildMessage(34, pt, <<0, 1>>)>>
      [] OTHER         -> <<>>

\* _parse_custom1_data raises: a read of lines 175-176 or of a handler is
\* outside the frame, a division by zero, or a reply that cannot be built
ParseCustom1Raises(data, spt, latch, ws, uft) ==
    IF Len(data) < 3 THEN FALSE
    ELSE IF IndexRaises(data, 2) THEN TRUE
    ELSE LET command == DecodeHeader(data)[1]
             pt      == DecodeHeader(data)[2]
         IN  \/ command = 16 /\ ParseWeightRaises(data, pt, latch, ws, uft)
             \/ command = 18 /\ Len(data) > 10 /\ IndexRaises(data, 10)
             \/ command = 18 /\ BuildMessageRaises(19, pt, <<1, 16, 0, 0, 0>>)
             \/ command = 20 /\ BuildMessageRaises(32, pt, <<37, 116, 24, 48>>)
             \/ command = 161 /\ BuildMessageRaises(34, pt, <<0, 1>>)

\* A dispatcher that clears the latch on a frame of fewer than 3 bytes
ParseCustom1DataShortClears(data, spt, latch, ws, uft) ==
    IF Len(data) < 3
      THEN [spt |-> spt, latch |-> FALSE, scale |-> ws, emit |-> <<>>, reply |-> <<>>]
      ELSE LET command == DecodeHeader(data)[1]
               pt      == DecodeHeader(data)[2]
               w       == IF command = 16
                            THEN ParseWeightMeasurement(data, pt, latch, ws, uft)
                            ELSE [latch |-> latch, emit |-> <<>>]
           IN  [spt   |-> IF spt = 0 THEN pt ELSE spt,
                latch |-> w.latch,
                scale |-> IF command = 18 THEN HandleScaleSettings(data, ws) ELSE ws,
                emit  |-> w.emit,
                reply |-> ReplyFor(command, pt)]

\* _parse_custom1_data: the session fields after the frame, the measurements
\* handed to the callback and the replies scheduled
ParseCustom1Data(data, spt, latch, ws, uft) ==
    IF Len(data) < 3
      THEN [spt |-> spt, latch |-> latch, scale |-> ws, emit |-> <<>>, reply |-> <<>>]
      ELSE LET command == DecodeHeader(data)[1]
               pt      == DecodeHeader(data)[2]
               w       == IF command = 16
                            THEN ParseWeightMeasurement(data, pt, latch, ws, uft)
                            ELSE [latch |-> latch, emit |-> <<>>]
           IN  [spt   |-> IF spt = 0 THEN pt ELSE spt,
                latch |-> w.latch,
                scale |-> IF command = 18 THEN HandleScaleSettings(data, ws) ELSE ws,
                emit  |-> w.emit,
                reply |-> ReplyFor(command, pt)]

---------------------------------------------------------------------------
(* The notification frames the scale sends *)

FramePTypes == {0, 1, 255}
DoneBytes   == {0, 1, 2}
RawWeights  == {0, 100}
Resistances == {500}

Hi(v) == v \div 256
Lo(v) == v % 256

\* a weight frame laid out as the scale lays it out for its protocol type
WeightFrame(pt, done, w, r) ==
    IF pt = 255
      THEN <<16, 11, pt, 0, done, Hi(w), Lo(w), Hi(r), Lo(r), 0, 50>>
      ELSE <<16, 10, pt, Hi(w), Lo(w), done, Hi(r), Lo(r), 0, 50>>

ButLast(f) == SubSeq(f, 1, Len(f) - 1)

WeightFrames ==
    { WeightFrame(pt, d, w, r) : pt \in {1, 255}, d \in DoneBytes, w \in RawWeights,
                                 r \in Resistances }
    \cup { ButLast(WeightFrame(pt, 0, 100, 500)) : pt \in {1, 255} }
    \cup { ButLast(WeightFrame(pt, WeightLayout(pt).done_state, 100, 500)) : pt \in {1, 255} }

SettingsFrames ==
    { <<18, 11, pt, 0, 0, 0, 0, 0, 0, 0, b>> : pt \in FramePTypes, b \in {0, 1} }
    \cup { <<18, 10, 1, 0, 0, 0, 0, 0, 0, 1>> }

CommandFrames == { <<c, 3, pt>> : c \in {20, 33, 35, 161, 85}, pt \in FramePTypes }

ShortFrames == { <<>>, <<16, 2>> }

Frames == WeightFrames \cup SettingsFrames \cup CommandFrames \cup ShortFrames

\* Every frame cut off after each number of bytes, and each with bytes added
TruncatedFrames ==
    UNION { { SubSeq(f, 1, n) : n \in 0..Len(f) } : f \in Frames }
    \cup { f \o <<1, 255>> : f \in Frames }

---------------------------------------------------------------------------
(* Notifications and replies *)

\* Whether the coordinator's refresh has cleared the previous measurement and
\* its start_measurement has not yet issued the request write (sensor.py,
\* lines 103-107)
BeforeRequest ==
    rstate = "starting" /\ pc[Coord] \in {"probe", "sub_ffe1", "sub_ffe2", "sub_fff1"}

\* _handle_custom1_notification: the transport delivers a frame of ffe1 or
\* fff1; measurement_callback stores an emitted measurement and sets the event.
Custom1Notification(data) ==
    LET r == ParseCustom1Data(data, seen_protocol_type, final_measure_received,
                              weight_scale, use_first_type)
    IN  /\ subscribed \cap {FFE1, FFF1} # {}
        /\ Len(replies) + Len(r.reply) <= MaxReplies
        /\ seen_protocol_type' = r.spt
        /\ final_measure_received' = r.latch
        /\ weight_scale' = r.scale
        /\ replies' = replies \o [i \in 1..Len(r.reply) |->
                                     [msg |-> r.reply[i], char |-> "none"]]
        /\ IF r.emit # <<>>
              THEN /\ measurement_data' = r.emit[1]
                   /\ measurement_event' = TRUE
                   /\ cbCount' = Min(cbCount + 1, CountCap)
                   /\ early' = BeforeRequest
              ELSE UNCHANGED <<measurement_data, measurement_event, cbCount, early>>
        /\ UNCHANGED <<client, connected, lock, use_first_type, subscribed, taskVars,
                       rstate, rresult, detection, codecVars, calcVars>>

\* A frame is delivered and handled (the history of frames is not kept)
Notify(data) == Custom1Notification(data) /\ UNCHANGED obsVars

\* _handle_custom2_notification: a frame of ffe2 is logged, nothing else
Notify2(data) ==
    /\ FFE2 \in subscribed
    /\ UNCHANGED vars

Remove(seq, i) == SubSeq(seq, 1, i - 1) \o SubSeq(seq, i + 1, Len(seq))

\* _send_response up to its await: returns when not connected, else issues
\* the write to the characteristic of the variant
ReplyStart(i) ==
    /\ i \in 1..Len(replies)
    /\ replies[i].char = "none"
    /\ replies' = IF ~client \/ ~connected
                    THEN Remove(replies, i)
                    ELSE [replies EXCEPT ![i].char = IF use_first_type THEN FFE3 ELSE FFF2]
    /\ UNCHANGED <<clientVars, subscribed, taskVars, coordVars, histVars, codecVars, calcVars, obsVars>>

\* A reply task whose failed write marks the client not connected
ReplyDoneFailureDisconnects(i, ok) ==
    /\ i \in 1..Len(replies)
    /\ replies[i].char # "none"
    /\ replies' = Remove(replies, i)
    /\ connected' = (ok /\ connected)
    /\ UNCHANGED <<client, lock, use_first_type, final_measure_received, weight_scale,
                   seen_protocol_type, subscribed, taskVars, coordVars, histVars,
                   codecVars, calcVars, obsVars>>

\* _send_response: the write completed, or raised and was logged
ReplyDone(i, ok) ==
    /\ i \in 1..Len(replies)
    /\ replies[i].char # "none"
    /\ replies' = Remove(replies, i)
    /\ UNCHANGED <<clientVars, subscribed, taskVars, coordVars, histVars, codecVars, calcVars, obsVars>>

---------------------------------------------------------------------------
(* RenphoDataUpdateCoordinator._async_update_data *)

Empty == [weight |-> 0, resistance1 |-> 0, resistance2 |-> 0, impedance |-> 0]

\* A refresh whose start_measurement clears the latch
RefreshBeginRearms ==
    /\ pc[Coord] = "idle"
    /\ connected
    /\ measurement_data' = Empty
    /\ measurement_event' = FALSE
    /\ rstate' = "starting"
    /\ early' = FALSE
    /\ Enter(Coord, "kg")
    /\ final_measure_received' = FALSE
    /\ UNCHANGED <<client, connected, lock, use_first_type, weight_scale,
                   seen_protocol_type, subscribed, replies, rresult, codecVars, calcVars,
                   obsVars>>

\* From the first line to the first await inside start_measurement: raises
\* UpdateFailed when not connected, else clears the previous measurement and
\* calls start_measurement().
RefreshBegin ==
    /\ pc[Coord] = "idle"
    /\ IF ~connected
          THEN /\ rstate' = "not_connected"
               /\ UNCHANGED <<taskVars, measurement_data, measurement_event, histVars>>
          ELSE /\ measurement_data' = Empty
               /\ measurement_event' = FALSE
               /\ rstate' = "starting"
               /\ early' = FALSE
               /\ Enter(Coord, "kg")
    /\ UNCHANGED <<clientVars, subscribed, replies, rresult, codecVars, calcVars, obsVars>>

\* A wait that returns the measurement whether or not the event is set
RefreshReturnEarly ==
    /\ pc[Coord] = "refresh_wait"
    /\ pc' = [pc EXCEPT ![Coord] = "idle"]
    /\ rstate' = "returned"
    /\ rresult' = measurement_data
    /\ UNCHANGED <<clientVars, subscribed, inflight, stale, unit, ret, log, last,
                   replies, measurement_event, measurement_data, histVars, codecVars, calcVars, obsVars>>

\* wait_for(self._measurement_event.wait(), 30.0) returns: the event is set
RefreshReturn ==
    /\ pc[Coord] = "refresh_wait"
    /\ measurement_event
    /\ pc' = [pc EXCEPT ![Coord] = "idle"]
    /\ rstate' = "returned"
    /\ rresult' = measurement_data
    /\ UNCHANGED <<clientVars, subscribed, inflight, stale, unit, ret, log, last,
                   replies, measurement_event, measurement_data, histVars, codecVars, calcVars, obsVars>>

\* wait_for raises TimeoutError: 30 s passed and the event is not set
RefreshTimeout ==
    /\ pc[Coord] = "refresh_wait"
    /\ ~measurement_event
    /\ pc' = [pc EXCEPT ![Coord] = "idle"]
    /\ rstate' = "timeout"
    /\ UNCHANGED <<clientVars, subscribed, inflight, stale, unit, ret, log, last,
                   replies, rresult, measurement_event, measurement_data, histVars,
                   codecVars, calcVars, obsVars>>

---------------------------------------------------------------------------
(* The session *)

SessionInit ==
    /\ client = FALSE
    /\ connected = FALSE
    /\ lock = NoTask
    /\ use_first_type = TRUE
    /\ final_measure_received = FALSE
    /\ weight_scale = 100
    /\ seen_protocol_type = 0
    /\ subscribed = {}
    /\ pc = [t \in Tasks |-> "idle"]
    /\ inflight = [t \in Tasks |-> NoOp]
    /\ stale = [t \in Tasks |-> FALSE]
    /\ unit = [t \in Tasks |-> "kg"]
    /\ ret = [t \in Tasks |-> "none"]
    /\ log = [t \in Tasks |-> <<>>]
    /\ last = [t \in Tasks |-> NoLast]
    /\ replies = <<>>
    /\ rstate = "idle"
    /\ rresult = Empty
    /\ measurement_event = FALSE
    /\ measurement_data = Empty
    /\ cbCount = 0
    /\ detection = "none"
    /\ early = FALSE
    /\ heard = <<>>
    /\ was_latched = FALSE
    /\ first_pt = <<>>
    /\ armed = FALSE

Init ==
    /\ SessionInit
    /\ cmd = 0
    /\ ptype = 0
    /\ payload = <<>>
    /\ frame = <<>>
    /\ decoded = <<>>
    /\ resistance1 = 0
    /\ impedance = <<>>

\* The frames of a session: a final reading, a final reading of weight 0, an
\* unsteady reading and a handshake frame that is answered
SessionFrames ==
    { WeightFrame(1, 1, 100, 500), WeightFrame(1, 1, 0, 500), WeightFrame(1, 0, 100, 500),
      <<20, 3, 1>> }

\* The coordinator refreshes, another task connects and disconnects, the
\* scale sends frames.
Next ==
    \/ RefreshBegin
    \/ \E ok \in BOOLEAN : ProbeDone(Coord, ok)
    \/ \E ok \in BOOLEAN : SubscribeDone(Coord, ok)
    \/ \E ok \in BOOLEAN : RequestDone(Coord, ok)
    \/ \E ok \in BOOLEAN : TimeSyncDone(Coord, ok)
    \/ RefreshReturn
    \/ RefreshTimeout
    \/ \E t \in Tasks \ {Coord} : ConnectCall(t)
    \/ \E t \in Tasks \ {Coord}, res \in {"ok", "bleak_error", "error"} : ConnectDone(t, res)
    \/ \E t \in Tasks \ {Coord} : DisconnectCall(t)
    \/ \E t \in Tasks \ {Coord}, res \in {"ok", "bleak_error", "error"} : DisconnectDone(t, res)
    \/ \E data \in SessionFrames : Notify(data)
    \/ \E data \in SessionFrames : Notify2(data)
    \/ \E i \in 1..MaxReplies : ReplyStart(i)
    \/ \E i \in 1..MaxReplies, ok \in BOOLEAN : ReplyDone(i, ok)

Spec == Init /\ [][Next]_vars

\* The session with its scheduling: a transport call that start_measurement
\* awaits completes or raises, and the event loop resumes the refresh when
\* the event is set or the 30 s of wait_for have passed.
Fairness ==
    /\ WF_vars(\E ok \in BOOLEAN : ProbeDone(Coord, ok))
    /\ WF_vars(\E ok \in BOOLEAN : SubscribeDone(Coord, ok))
    /\ WF_vars(\E ok \in BOOLEAN : RequestDone(Coord, ok))
    /\ WF_vars(\E ok \in BOOLEAN : TimeSyncDone(Coord, ok))
    /\ WF_vars(RefreshReturn)
    /\ WF_vars(RefreshTimeout)

\* The weight frames of a session
RefreshFrames ==
    { WeightFrame(1, 1, 100, 500), WeightFrame(1, 1, 0, 500), WeightFrame(1, 0, 100, 500) }

\* The coordinator refreshes, another task connects and disconnects, the
\* scale sends weight frames (none that is answered).
NextRefresh ==
    \/ RefreshBegin
    \/ \E ok \in BOOLEAN : ProbeDone(Coord, ok)
    \/ \E ok \in BOOLEAN : SubscribeDone(Coord, ok)
    \/ \E ok \in BOOLEAN : RequestDone(Coord, ok)
    \/ \E ok \in BOOLEAN : TimeSyncDone(Coord, ok)
    \/ RefreshReturn
    \/ RefreshTimeout
    \/ \E t \in Tasks \ {Coord} : ConnectCall(t)
    \/ \E t \in Tasks \ {Coord}, res \in {"ok", "bleak_error", "error"} : ConnectDone(t, res)
    \/ \E t \in Tasks \ {Coord} : DisconnectCall(t)
    \/ \E t \in Tasks \ {Coord}, res \in {"ok", "bleak_error", "error"} : DisconnectDone(t, res)
    \/ \E data \in RefreshFrames : Notify(data)

LiveSpec == Init /\ [][NextRefresh]_vars /\ Fairness

---------------------------------------------------------------------------
(* The client's interface under concurrent callers *)

\* The frames that only make the protocol type known (historical data,
\* which no handler decodes)
HeaderFrames == { <<35, 3, 1>> }

\* Every task calls start_measurement, connect and disconnect as it likes.
NextCalls ==
    \/ \E t \in Tasks, u \in {"kg", "lb"} : StartMeasurement(t, u)
    \/ \E t \in Tasks, ok \in BOOLEAN : ProbeDone(t, ok)
    \/ \E t \in Tasks, ok \in BOOLEAN : SubscribeDone(t, ok)
    \/ \E t \in Tasks, ok \in BOOLEAN : RequestDone(t, ok)
    \/ \E t \in Tasks, ok \in BOOLEAN : TimeSyncDone(t, ok)
    \/ \E t \in Tasks : ConnectCall(t)
    \/ \E t \in Tasks : ConnectAcquire(t)
    \/ \E t \in Tasks, res \in {"ok", "bleak_error", "error"} : ConnectDone(t, res)
    \/ \E t \in Tasks : DisconnectCall(t)
    \/ \E t \in Tasks : DisconnectAcquire(t)
    \/ \E t \in Tasks, res \in {"ok", "bleak_error", "error"} : DisconnectDone(t, res)
    \/ \E data \in HeaderFrames : Notify(data)

SpecCalls == Init /\ [][NextCalls]_vars

---------------------------------------------------------------------------
(* The notification handler on every frame of a bounded set, in a session  *)
(* whose start_measurement has returned True on either variant             *)

\* Whether _parse_weight_measurement gets past its length test with a done
\* byte of 0 (data is a frame of command 0x10)
IsUnsteady(data) ==
    /\ Len(data) >= 3
    /\ DecodeHeader(data)[1] = 16
    /\ ~WeightTooShort(data, WeightLayout(DecodeHeader(data)[2]))
    /\ At(data, WeightLayout(DecodeHeader(data)[2]).done_offset) % 256 = 0

\* Whether data is a frame of command 0x10 whose done byte is the done_state
\* of its protocol type
IsFinal(data) ==
    /\ Len(data) >= 3
    /\ DecodeHeader(data)[1] = 16
    /\ Len(data) > WeightLayout(DecodeHeader(data)[2]).done_offset
    /\ At(data, WeightLayout(DecodeHeader(data)[2]).done_offset) % 256
          = WeightLayout(DecodeHeader(data)[2]).done_state

\* Whether data is such a frame and passes the length test
IsValidFinal(data) ==
    /\ IsFinal(data)
    /\ ~WeightTooShort(data, WeightLayout(DecodeHeader(data)[2]))

\* The weight _parse_weight_measurement decodes from a frame that passes the
\* length test, in the current state
FinalWeight(data) ==
    LET L == WeightLayout(DecodeHeader(data)[2])
    IN  DecodeWeight(At(data, L.weight_offset), At(data, L.weight_offset + 1),
                     weight_scale, use_first_type)

\* What the handler does with `data` in the current state
Outcome(data) ==
    ParseCustom1Data(data, seen_protocol_type, final_measure_received, weight_scale,
                     use_first_type)

\* The history kept of a delivered frame
Observe(data) ==
    /\ heard' = <<data>>
    /\ was_latched' = final_measure_received
    /\ first_pt' = IF first_pt = <<>> /\ Len(data) >= 3
                     THEN <<DecodeHeader(data)[2]>> ELSE first_pt
    /\ armed' = IF IsUnsteady(data) THEN TRUE
                ELSE IF Outcome(data).emit # <<>> THEN FALSE ELSE armed

\* A frame is delivered and handled, and the history of frames is kept
Deliver(data) == Observe(data) /\ Custom1Notification(data)

\* The session after connect() and a start_measurement() that returned True:
\* the probe write succeeded or raised, the subscriptions of the variant are
\* armed, no frame has arrived yet.
InitNotify ==
    /\ client = TRUE
    /\ connected = TRUE
    /\ lock = NoTask
    /\ use_first_type \in BOOLEAN
    /\ final_measure_received = FALSE
    /\ weight_scale = 100
    /\ seen_protocol_type = 0
    /\ subscribed = IF use_first_type THEN {FFE1, FFE2} ELSE {FFF1}
    /\ pc = [t \in Tasks |-> "idle"]
    /\ inflight = [t \in Tasks |-> NoOp]
    /\ stale = [t \in Tasks |-> FALSE]
    /\ unit = [t \in Tasks |-> "kg"]
    /\ ret = [t \in Tasks |-> IF t = Coord THEN "none" ELSE "true"]
    /\ log = [t \in Tasks |-> <<>>]
    /\ last = [t \in Tasks |-> IF t = Coord THEN NoLast
                                ELSE [step |-> "time_sync", ok |-> TRUE]]
    /\ replies = <<>>
    /\ rstate = "idle"
    /\ rresult = Empty
    /\ measurement_event = FALSE
    /\ measurement_data = Empty
    /\ cbCount = 0
    /\ detection = "done"
    /\ early = FALSE
    /\ heard = <<>>
    /\ was_latched = FALSE
    /\ first_pt = <<>>
    /\ armed = FALSE
    /\ cmd = 0
    /\ ptype = 0
    /\ payload = <<>>
    /\ frame = <<>>
    /\ decoded = <<>>
    /\ resistance1 = 0
    /\ impedance = <<>>

\* The frames of the latch and of the weight scale: every weight frame, the
\* too-short ones, the settings frames of one protocol type, historical data
\* and an unknown command
NotifyFrames ==
    WeightFrames \cup ShortFrames \cup { f \in SettingsFrames : f[3] = 1 }
    \cup { <<35, 3, 1>>, <<85, 3, 1>> }

NextNotify ==
    \/ \E data \in NotifyFrames : Deliver(data)
    \/ \E i \in 1..MaxReplies : ReplyStart(i)
    \/ \E i \in 1..MaxReplies, ok \in BOOLEAN : ReplyDone(i, ok)

SpecNotify == InitNotify /\ [][NextNotify]_vars

\* The frames of the dispatch: every command with every protocol type
ReplyFrames ==
    SettingsFrames \cup CommandFrames \cup ShortFrames \cup { WeightFrame(1, 0, 100, 500) }

NextReplies ==
    \/ \E data \in ReplyFrames : Deliver(data)
    \/ \E i \in 1..MaxReplies : ReplyStart(i)
    \/ \E i \in 1..MaxReplies, ok \in BOOLEAN : ReplyDone(i, ok)

SpecReplies == InitNotify /\ [][NextReplies]_vars

---------------------------------------------------------------------------
(* The frame codec on its own: _build_message on every input of a bounded  *)
(* set, and the header decode of _parse_custom1_data on what it built      *)

CodecBytes   == {0, 19, 252, 255}
PayloadBytes == {0, 1, 255}

RECURSIVE SeqsUpTo(_, _)
SeqsUpTo(S, n) ==
    IF n = 0 THEN {<<>>}
    ELSE SeqsUpTo(S, n - 1) \cup { Append(q, x) : q \in SeqsUpTo(S, n - 1), x \in S }

InitCodec ==
    /\ SessionInit
    /\ cmd \in CodecBytes
    /\ ptype \in CodecBytes
    /\ payload \in SeqsUpTo(PayloadBytes, MaxPayload)
    /\ frame = <<>>
    /\ decoded = <<>>
    /\ resistance1 = 0
    /\ impedance = <<>>

\* frame = _build_message(cmd, ptype, *payload)
Build ==
    /\ frame = <<>>
    /\ ~BuildMessageRaises(cmd, ptype, payload)
    /\ frame' = BuildMessage(cmd, ptype, payload)
    /\ UNCHANGED <<clientVars, subscribed, taskVars, replies, coordVars, histVars,
                   cmd, ptype, payload, decoded, obsVars, calcVars>>

\* _parse_custom1_data reads command and protocol_type off the built frame
Decode ==
    /\ frame # <<>>
    /\ decoded = <<>>
    /\ Len(frame) >= 3
    /\ decoded' = DecodeHeader(frame)
    /\ UNCHANGED <<clientVars, subscribed, taskVars, replies, coordVars, histVars,
                   cmd, ptype, payload, frame, obsVars, calcVars>>

NextCodec == Build \/ Decode

SpecCodec == InitCodec /\ [][NextCodec]_vars

---------------------------------------------------------------------------
(* Claims about the frame codec (checked under SpecCodec) *)

\* C8: the last byte of a frame built by _build_message is the sum of all the
\* bytes before it in that frame, modulo 256.
C8_ChecksumIsSumOfPriorBytes ==
    frame # <<>> =>
        frame[Len(frame)] = SumSeq(SubSeq(frame, 1, Len(frame) - 1)) % 256

\* C8 witness: a frame was built from a non-empty payload and the sum of
\* its prior bytes wraps around 256.
C8_Witness ==
    /\ frame # <<>>
    /\ payload # <<>>
    /\ SumSeq(SubSeq(frame, 1, Len(frame) - 1)) > 255

\* C9: a frame built from a payload of n bytes has n + 4 bytes: the command,
\* n + 4, the protocol type, the n payload bytes in order, and the checksum.
C9_FrameLayout ==
    frame # <<>> =>
        /\ Len(frame) = Len(payload) + 4
        /\ frame[1] = cmd
        /\ frame[2] = Len(payload) + 4
        /\ frame[2] = Len(frame)
        /\ frame[3] = ptype
        /\ \A i \in 1..Len(payload) : frame[3 + i] = payload[i]
        /\ frame[Len(frame)] = SumSeq(SubSeq(frame, 1, Len(frame) - 1)) % 256

\* C10: decoding a built frame (command = data[0], protocol_type = data[2])
\* gives back the command and the protocol type given to the builder.
C10_RoundTrip ==
    decoded # <<>> => decoded = <<cmd, ptype>>

---------------------------------------------------------------------------
(* Claims about start_measurement and the notification latch *)

\* C1: the measurement callback is invoked at most once per measurement
\* request, also when not-final frames (done == 0) arrive between final frames.
C1_AtMostOneCallbackPerRequest == cbCount <= 1

\* C2: start_measurement is single-flight: at most one call is between its
\* first and its last transport call at any time.
C2_SingleFlight == Cardinality({t \in Tasks : pc[t] \in MeasureSteps}) <= 1

\* C3: the probe runs once per connection (no probe write is issued once a
\* detection has started on this connection), and use_first_type does not
\* change after the first detection has completed while the connection lasts.
C3_ProbeOncePerConnection ==
    [][ /\ \A t \in Tasks :
              (pc[t] # "probe" /\ pc'[t] = "probe") => detection = "none"
        /\ (detection = "done" /\ detection' = "done")
              => use_first_type' = use_first_type ]_vars

PrimaryOrder     == <<"probe", "sub_ffe1", "sub_ffe2", "request", "time_sync">>
AlternativeOrder == <<"probe", "sub_fff1", "request", "time_sync">>
StepNames(l) == [i \in 1..Len(l) |-> l[i].step]
IsPrefix(a, b) == Len(a) <= Len(b) /\ SubSeq(b, 1, Len(a)) = a

\* C4: within one call of start_measurement the transport calls are issued in
\* the order probe write, subscription(s), request write (command 0x13),
\* time-sync write; the request is issued only after the probe has completed
\* and the last subscription has succeeded, the time sync only after the
\* request has succeeded.
C4_StepOrder ==
    \A t \in Tasks :
        /\ \/ IsPrefix(StepNames(log[t]), PrimaryOrder)
           \/ IsPrefix(StepNames(log[t]), AlternativeOrder)
        /\ pc[t] \in MeasureSteps =>
              /\ log[t] # <<>>
              /\ log[t][Len(log[t])].step = pc[t]
        /\ pc[t] \in {"sub_ffe1", "sub_fff1"} => last[t].step = "probe"
        /\ pc[t] = "request" =>
              /\ last[t].step \in {"sub_ffe2", "sub_fff1"}
              /\ last[t].ok
              /\ inflight[t].op = "write"
              /\ inflight[t].msg[1] = 19
        /\ pc[t] = "time_sync" => last[t] = [step |-> "request", ok |-> TRUE]

\* C4 witness: a call on the primary variant has reached its time-sync write
\* after the probe, both subscriptions and the request.
C4_Witness ==
    \E t \in Tasks : pc[t] = "time_sync" /\ StepNames(log[t]) = PrimaryOrder

\* C5: when the probe write completes, the variant recorded is Primary iff
\* the write succeeded and Alternative iff it raised; the call does not
\* return on a failed probe but goes on to the subscription of the variant
\* recorded; one call makes one probe write.
C5_ProbeOutcome ==
    /\ [][ \A t \in Tasks :
              (pc[t] = "probe" /\ pc'[t] # "probe") =>
                  /\ last'[t].step = "probe"
                  /\ use_first_type' = last'[t].ok
                  /\ pc'[t] = IF last'[t].ok THEN "sub_ffe1" ELSE "sub_fff1"
                  /\ ret'[t] = "none" ]_vars
    /\ [](\A t \in Tasks :
              Cardinality({i \in 1..Len(log[t]) : log[t][i].step = "probe"}) <= 1)

\* C5 witness: a probe write raised, the Alternative variant was recorded and
\* the call went on to subscribe to fff1.
C5_Witness ==
    \E t \in Tasks :
        /\ pc[t] = "sub_fff1"
        /\ ~use_first_type
        /\ last[t] = [step |-> "probe", ok |-> FALSE]

\* C6: when a subscription, the request write or the time-sync write raises,
\* start_measurement returns False without raising and makes no later
\* transport call (the refresh then fails); it returns True only when the
\* time-sync write, and so every step before it, has succeeded.
C6_FailureReturnsFalse ==
    \A t \in Tasks :
        /\ ret[t] = "true" /\ last[t].step # "none" =>
              last[t] = [step |-> "time_sync", ok |-> TRUE]
        /\ pc[t] \in {"sub_ffe2", "request", "time_sync"} => last[t].ok
        /\ (last[t].step \notin {"none", "probe"} /\ ~last[t].ok) =>
              /\ pc[t] = "idle"
              /\ ret[t] = "false"
              /\ inflight[t] = NoOp
              /\ t = Coord => rstate \in {"start_failed", "not_connected"}
        /\ t = Coord => ret[t] # "raised"
        /\ rstate = "waiting" => last[Coord] = [step |-> "time_sync", ok |-> TRUE]

\* C6 witness: the request write raised, start_measurement returned False and
\* the refresh failed.
C6_Witness ==
    /\ last[Coord] = [step |-> "request", ok |-> FALSE]
    /\ ret[Coord] = "false"
    /\ rstate = "start_failed"

---------------------------------------------------------------------------
(* Claims about the coordinator's refresh (checked under LiveSpec) *)

\* C7: every refresh that has called start_measurement eventually resolves:
\* it returns the measurement, fails because start_measurement returned
\* False, or fails with the timeout. It returns a measurement only if the
\* callback was invoked since the request, and it fails with the timeout only
\* if no final reading has set the event.
C7_RefreshResolves ==
    /\ [](rstate = "returned" => (cbCount >= 1 /\ rresult # Empty))
    /\ [][ (rstate # "timeout" /\ rstate' = "timeout")
              => (rstate = "waiting" /\ ~measurement_event /\ cbCount = 0) ]_vars
    /\ (rstate \in {"starting", "waiting"})
          ~> (rstate \in {"returned", "timeout", "start_failed"})

\* C7 witness: a refresh has returned the measurement a final reading gave
\* to the callback.
C7_Witness ==
    /\ rstate = "returned"
    /\ cbCount >= 1
    /\ rresult.weight > 0
    /\ last[Coord] = [step |-> "time_sync", ok |-> TRUE]

---------------------------------------------------------------------------
(* Claims about connect and disconnect (checked under SpecCalls) *)

\* C11: a disconnect that finds the client not connected (never connected or
\* already disconnected) issues no transport call and returns without
\* raising; a disconnect that tears the transport down leaves the client
\* marked not connected when it finishes, whether the teardown succeeded or
\* raised, also while another task is inside start_measurement.
C11_DisconnectSafe ==
    [][ \A t \in Tasks :
          /\ ( /\ (DisconnectCall(t) /\ lock = NoTask) \/ DisconnectAcquire(t)
               /\ ~(client /\ connected) )
                => /\ inflight' = inflight
                   /\ pc'[t] = "idle"
                   /\ ret'[t] = "returned"
                   /\ connected' = connected
          /\ (pc[t] = "disconnecting" /\ pc'[t] # "disconnecting")
                => /\ ~connected'
                   /\ pc'[t] = "idle"
                   /\ inflight'[t] = NoOp ]_vars

\* C11 witness: a disconnect has torn the connection down while the other
\* task awaits a transport call of start_measurement.
C11_Witness ==
    \E t \in Tasks, u \in Tasks :
        /\ t # u
        /\ ret[t] = "returned"
        /\ pc[t] = "idle"
        /\ ~connected
        /\ pc[u] \in MeasureSteps
        /\ stale[u]

\* C12: connect and disconnect exclude each other: at most one task is
\* inside a critical section, it holds the lock, so at most one transport
\* connect or disconnect is in flight; and a connect that finds the client
\* connected returns True without a transport call.
C12_ConnectDisconnectExclusive ==
    /\ [](/\ Cardinality({t \in Tasks : pc[t] \in {"connecting", "disconnecting"}}) <= 1
          /\ Cardinality({t \in Tasks : inflight[t].op \in {"connect", "disconnect"}}) <= 1
          /\ \A t \in Tasks :
                /\ pc[t] \in {"connecting", "disconnecting"} => lock = t
                /\ inflight[t].op = "connect" <=> pc[t] = "connecting"
                /\ inflight[t].op = "disconnect" <=> pc[t] = "disconnecting"
                /\ pc[t] \in {"connect_wait", "disconnect_wait"} => inflight[t] = NoOp)
    /\ [][ \A t \in Tasks :
              ( /\ (ConnectCall(t) /\ lock = NoTask) \/ ConnectAcquire(t)
                /\ connected )
                 => /\ ret'[t] = "true"
                    /\ pc'[t] = "idle"
                    /\ inflight' = inflight
                    /\ lock' = lock ]_vars

\* C12 witness: a task waits for the lock to connect while the other task's
\* transport disconnect is in flight.
C12_Witness ==
    \E t \in Tasks, u \in Tasks :
        /\ pc[t] = "disconnecting"
        /\ lock = t
        /\ pc[u] = "connect_wait"

---------------------------------------------------------------------------
(* Claims about the notification handler (checked under SpecNotify) *)

\* C13: in every state of the session, the handler given any frame (of any
\* length, cut off anywhere) finishes without an error: every byte it reads
\* is inside the frame and the weight scale it divides by is not 0; and the
\* handler stays subscribed and takes the next frame.
C13_NoNotificationCrashes ==
    /\ \A data \in TruncatedFrames :
          ~ParseCustom1Raises(data, seen_protocol_type, final_measure_received,
                              weight_scale, use_first_type)
    /\ subscribed \cap {FFE1, FFF1} # {}
    /\ \A data \in WeightFrames \cup ShortFrames : ENABLED Deliver(data)

\* C13 witness: a final weight frame cut off one byte short was delivered
\* after a measurement had been emitted and the latch cleared again, and it
\* was ignored.
C13_Witness ==
    /\ measurement_event
    /\ armed
    /\ heard = <<ButLast(WeightFrame(1, 1, 100, 500))>>
    /\ ~final_measure_received

\* C14: while the latch is set, a weight frame whose done byte is the
\* done_state of its protocol type does not invoke the callback and leaves
\* the latch, the weight scale and the variant as they are.
C14_LatchedFinalIgnored ==
    [][ \A data \in NotifyFrames :
          (Deliver(data) /\ IsFinal(data) /\ final_measure_received)
             => /\ Outcome(data).emit = <<>>
                /\ final_measure_received'
                /\ UNCHANGED <<weight_scale, use_first_type>>
                /\ UNCHANGED <<measurement_data, measurement_event, cbCount>> ]_vars

\* C14 witness: a final weight frame was delivered while the latch was set
\* by the one measurement emitted before it.
C14_Witness ==
    /\ heard = <<WeightFrame(1, 1, 100, 500)>>
    /\ was_latched
    /\ final_measure_received
    /\ cbCount = 1

\* C15: a weight frame that passes the length test and whose done byte is 0
\* clears the latch and does not invoke the callback, whatever the latch
\* was; and once such a frame has been handled, the next valid final frame
\* with a decoded weight above 0 invokes the callback (no callback having
\* been invoked in between).
C15_UnsteadyRearms ==
    [][ \A data \in NotifyFrames :
          Deliver(data) =>
             /\ IsUnsteady(data) =>
                   /\ ~final_measure_received'
                   /\ Outcome(data).emit = <<>>
                   /\ UNCHANGED <<measurement_data, measurement_event, cbCount>>
             /\ (armed /\ IsValidFinal(data) /\ FinalWeight(data) > 0) =>
                   /\ Outcome(data).emit # <<>>
                   /\ measurement_event' ]_vars

\* C16: the latch is set on emission: every step in which the latch goes
\* from clear to set invokes the callback, and a valid final frame whose
\* decoded weight is not above 0 invokes no callback and leaves the latch
\* clear.
C16_LatchSetOnEmission ==
    [][ \A data \in NotifyFrames :
          Deliver(data) =>
             /\ (~final_measure_received /\ final_measure_received') =>
                   /\ Outcome(data).emit # <<>>
                   /\ measurement_event'
             /\ (~final_measure_received /\ IsValidFinal(data) /\ FinalWeight(data) <= 0) =>
                   /\ Outcome(data).emit = <<>>
                   /\ ~final_measure_received' ]_vars

\* C17: a frame of fewer than 3 bytes changes nothing: the cached protocol
\* type, the latch, the weight scale and the variant stay as they are, no
\* reply is scheduled and the callback is not invoked.
C17_ShortFrameRejected ==
    /\ [](\A data \in TruncatedFrames :
             Len(data) < 3 =>
                Outcome(data) = [spt   |-> seen_protocol_type,
                                 latch |-> final_measure_received,
                                 scale |-> weight_scale,
                                 emit  |-> <<>>,
                                 reply |-> <<>>])
    /\ [][ \A data \in NotifyFrames :
              (Deliver(data) /\ Len(data) < 3) =>
                 /\ UNCHANGED <<seen_protocol_type, final_measure_received, weight_scale,
                                use_first_type, replies>>
                 /\ UNCHANGED <<measurement_data, measurement_event, cbCount>> ]_vars

\* C17 witness: a frame of 2 bytes was delivered when the latch was set and
\* the weight scale 10, and both are as they were.
C17_Witness ==
    /\ heard = << <<16, 2>> >>
    /\ was_latched
    /\ final_measure_received
    /\ weight_scale = 10
    /\ seen_protocol_type = 1

---------------------------------------------------------------------------
(* Claims about the dispatch and the replies (checked under SpecReplies) *)

\* C18: the protocol_type byte of the first frame of 3 bytes or more is
\* cached and the cached value never changes afterwards (also when that
\* byte is 0), and every reply scheduled afterwards for a frame of command
\* 0x12, 0x14 or 0xa1 carries the cached value as its protocol type.
C18_FirstProtocolTypeCached ==
    /\ [](first_pt # <<>> => seen_protocol_type = first_pt[1])
    /\ [](first_pt = <<>> => seen_protocol_type = 0)
    /\ [][ \A data \in ReplyFrames :
              (Deliver(data) /\ Len(data) >= 3
                  /\ DecodeHeader(data)[1] \in {18, 20, 161}) =>
                 /\ Len(replies') = Len(replies) + 1
                 /\ replies'[Len(replies')].msg[3] = seen_protocol_type' ]_vars

\* The command of the reply to a frame of command c
ReplyCommand(c) ==
    CASE c = 18 -> 19 [] c = 20 -> 32 [] c = 33 -> 160 [] c = 161 -> 34

\* C19: a frame of 3 bytes or more with command 0x12, 0x14, 0x21 or 0xa1
\* schedules exactly one reply, of command 0x13, 0x20, 0xa0 and 0x22; a
\* frame with command 0x10, 0x23 or any other command schedules none; and
\* a frame with command 0x23 or an unrecognized one changes neither the
\* latch nor the weight scale nor the variant.
C19_DispatchByCommand ==
    /\ [](\A data \in Frames :
             Len(data) >= 3 =>
                LET c == DecodeHeader(data)[1]
                    r == Outcome(data)
                IN  /\ c \in {18, 20, 33, 161} =>
                          Len(r.reply) = 1 /\ r.reply[1][1] = ReplyCommand(c)
                    /\ c \notin {18, 20, 33, 161} => r.reply = <<>>
                    /\ c \notin {16, 18, 20, 33, 161} =>
                          /\ r.latch = final_measure_received
                          /\ r.scale = weight_scale
                          /\ r.emit = <<>>)
    /\ [][ \A data \in ReplyFrames :
              (Deliver(data) /\ Len(data) >= 3) =>
                 LET c == DecodeHeader(data)[1]
                 IN  /\ c \in {18, 20, 33, 161} =>
                           /\ Len(replies') = Len(replies) + 1
                           /\ SubSeq(replies', 1, Len(replies)) = replies
                           /\ replies'[Len(replies')].msg[1] = ReplyCommand(c)
                     /\ c \notin {18, 20, 33, 161} => replies' = replies
                     /\ c \notin {16, 18, 20, 33, 161} =>
                           UNCHANGED <<final_measure_received, weight_scale,
                                       use_first_type, cbCount>> ]_vars

\* C19 witness: a frame of command 0x21 was delivered and its reply of
\* command 0xa0 is scheduled.
C19_Witness ==
    /\ heard = << <<33, 3, 1>> >>
    /\ replies # <<>>
    /\ replies[Len(replies)].msg[1] = 160
    /\ replies[Len(replies)].char = "none"

\* Settings frames with other values at offset 10, longer ones and shorter ones
MoreSettingsFrames ==
    { <<18, 11, 1, 0, 0, 0, 0, 0, 0, 0, b>> : b \in {0, 1, 2, 255} }
    \cup { <<18, 12, 1, 0, 0, 0, 0, 0, 0, 0, b, 1>> : b \in {0, 1} }
    \cup { <<18, 3, 1>>, <<18, 10, 1, 0, 0, 0, 0, 0, 0, 0>> }

\* C20: a settings frame (command 0x12) of more than 10 bytes sets the
\* weight scale to 100 when its byte at offset 10 is 1 and to 10 otherwise;
\* one of 10 bytes or fewer leaves the weight scale as it is; both are
\* acknowledged by a reply of command 0x13; and the weight scale is 10 or
\* 100 in every state, 100 before any frame.
C20_WeightScale ==
    /\ [](weight_scale \in {10, 100})
    /\ [](heard = <<>> => weight_scale = 100)
    /\ [](\A data \in SettingsFrames \cup MoreSettingsFrames :
             /\ Outcome(data).scale =
                   IF Len(data) > 10 THEN (IF data[11] = 1 THEN 100 ELSE 10)
                   ELSE weight_scale
             /\ Len(Outcome(data).reply) = 1
             /\ Outcome(data).reply[1][1] = 19)
    /\ [][ \A data \in ReplyFrames :
              (Deliver(data) /\ Len(data) >= 3 /\ DecodeHeader(data)[1] = 18) =>
                 /\ weight_scale' = IF Len(data) > 10
                                      THEN (IF data[11] = 1 THEN 100 ELSE 10)
                                      ELSE weight_scale
                 /\ Len(replies') = Len(replies) + 1
                 /\ replies'[Len(replies')].msg[1] = 19
              ]_vars

\* C20 witness: a settings frame of 10 bytes was delivered when the weight
\* scale was 10; the scale is still 10 and the acknowledgement is scheduled.
C20_Witness ==
    /\ heard = << <<18, 10, 1, 0, 0, 0, 0, 0, 0, 1>> >>
    /\ weight_scale = 10
    /\ replies # <<>>
    /\ replies[Len(replies)].msg[1] = 19
    /\ replies[Len(replies)].char = "none"

---------------------------------------------------------------------------
(* Claims about the weight handler's arithmetic and length test            *)
(* (checked under SpecNotify)                                              *)

\* Whether data is a frame of command 0x10 of fewer than 11 bytes when its
\* protocol type is 0xff, of fewer than 10 bytes otherwise
IsShortWeight(data) ==
    /\ Len(data) >= 3
    /\ DecodeHeader(data)[1] = 16
    /\ Len(data) < (IF DecodeHeader(data)[2] = 255 THEN 11 ELSE 10)

\* C21: a weight frame shorter than the highest offset its layout reads
\* (fewer than 11 bytes for protocol type 0xff, fewer than 10 otherwise) is
\* ignored whatever its done byte: the handler does not raise, the latch
\* stays as it is and the callback is not invoked.
C21_ShortWeightIgnored ==
    /\ [](\A data \in TruncatedFrames :
             IsShortWeight(data) =>
                /\ ~ParseCustom1Raises(data, seen_protocol_type, final_measure_received,
                                       weight_scale, use_first_type)
                /\ Outcome(data).latch = final_measure_received
                /\ Outcome(data).emit = <<>>)
    /\ [][ \A data \in NotifyFrames :
              (Deliver(data) /\ IsShortWeight(data)) =>
                 /\ UNCHANGED final_measure_received
                 /\ UNCHANGED <<measurement_data, measurement_event, cbCount>> ]_vars

\* C21 witness: a final frame of protocol type 0xff one byte short was
\* delivered while the latch was clear; the latch is still clear and no
\* callback was invoked.
C21_Witness ==
    /\ heard = <<ButLast(WeightFrame(255, 2, 100, 500))>>
    /\ ~was_latched
    /\ ~final_measure_received
    /\ ~measurement_event
    /\ cbCount = 0


\* Whether data is a frame of command 0x10 (of 3 bytes or more)
IsWeightFrame(data) == Len(data) >= 3 /\ DecodeHeader(data)[1] = 16

\* The offset of the done byte of a weight frame, and the value of it that
\* marks a final measurement: 2 at offset 4 for protocol type 0xff, 1 at
\* offset 5 otherwise
DoneOffsetOf(data) == IF DecodeHeader(data)[2] = 255 THEN 4 ELSE 5
DoneStateOf(data)  == IF DecodeHeader(data)[2] = 255 THEN 2 ELSE 1

\* Whether the handler, in the current state, is to invoke the callback for
\* the weight frame data
IsToEmit(data) ==
    /\ ~IsShortWeight(data)
    /\ ~final_measure_received
    /\ At(data, DoneOffsetOf(data)) % 256 = DoneStateOf(data)
    /\ FinalWeight(data) > 0

\* Whether the done byte of the weight frame data is there and is neither 0
\* nor the done-state
IsOtherDone(data) ==
    /\ Len(data) > DoneOffsetOf(data)
    /\ At(data, DoneOffsetOf(data)) % 256 \notin {0, DoneStateOf(data)}

\* C22: a weight frame invokes the callback if and only if it is long
\* enough, the latch is clear, its done byte is the done-state of its
\* protocol type (2 at offset 4 for 0xff, 1 at offset 5 otherwise) and the
\* decoded weight is above 0; a done byte that is neither 0 nor the
\* done-state changes nothing (latch, weight scale, variant, stored
\* measurement, replies).
C22_CallbackIffFinal ==
    /\ [](\A data \in TruncatedFrames :
             IsWeightFrame(data) =>
                /\ (Outcome(data).emit # <<>>) <=> IsToEmit(data)
                /\ IsOtherDone(data) =>
                      /\ Outcome(data).latch = final_measure_received
                      /\ Outcome(data).scale = weight_scale
                      /\ Outcome(data).emit = <<>>
                      /\ Outcome(data).reply = <<>>)
    /\ [][ \A data \in NotifyFrames :
              (Deliver(data) /\ IsWeightFrame(data)) =>
                 /\ IsToEmit(data) =>
                       /\ measurement_event'
                       /\ measurement_data' = Outcome(data).emit[1]
                       /\ cbCount' = Min(cbCount + 1, CountCap)
                 /\ ~IsToEmit(data) =>
                       UNCHANGED <<measurement_data, measurement_event, cbCount>>
                 /\ IsOtherDone(data) =>
                       UNCHANGED <<final_measure_received, weight_scale, use_first_type,
                                   replies, measurement_data, measurement_event,
                                   cbCount>> ]_vars

\* C22 witness: a final frame of protocol type 0xff (done byte 2 at offset 4)
\* was delivered while the latch was clear and the callback was invoked once.
C22_Witness ==
    /\ heard = <<WeightFrame(255, 2, 100, 500)>>
    /\ ~was_latched
    /\ final_measure_received
    /\ measurement_event
    /\ measurement_data # Empty
    /\ cbCount = 1


\* Final weight frames of both protocol types with weights and resistances
\* over the whole 16-bit range
DecodeFrames ==
    { IF pt = 255
        THEN <<16, 11, pt, 0, 2, Hi(w), Lo(w), Hi(r1), Lo(r1), Hi(r2), Lo(r2)>>
        ELSE <<16, 10, pt, Hi(w), Lo(w), 1, Hi(r1), Lo(r1), Hi(r2), Lo(r2)>> :
      pt \in {1, 255}, w \in {1, 100, 255, 256, 65535},
      r1 \in {0, 409, 500, 65535}, r2 \in {0, 50, 256} }

\* The offsets of the weight bytes and of the resistance block of a weight
\* frame
WeightOffsetOf(data) == IF DecodeHeader(data)[2] = 255 THEN 5 ELSE 3
ResistOffsetOf(data) == IF DecodeHeader(data)[2] = 255 THEN 7 ELSE 6

\* The big-endian 16-bit value of the two bytes of data at offset i
BigEndian(data, i) == 256 * At(data, i) + At(data, i + 1)

\* Whether the measurement m (its weight in thousandths of a kilogram) is
\* what the frame data says, at the current weight scale and variant
IsDecodedFrom(m, data) ==
    /\ m.weight * weight_scale * (IF use_first_type THEN 1 ELSE 10)
          = 1000 * BigEndian(data, WeightOffsetOf(data))
    /\ m.resistance1 = BigEndian(data, ResistOffsetOf(data))
    /\ m.resistance2 = BigEndian(data, ResistOffsetOf(data) + 2)

\* C23: the emitted weight is the big-endian 16-bit value of the two weight
\* bytes divided by the current weight scale (bytes 0x00 0x64 at scale 100
\* give 1.00 kg under Primary), and by a further 10 exactly when the variant
\* is Alternative; resistance1 and resistance2 are the big-endian 16-bit
\* values of the first and the second byte pair of the resistance block.
C23_DecodedValues ==
    /\ [](/\ DecodeWeight(0, 100, 100, TRUE) = 1000
          /\ \A data \in DecodeFrames \cup NotifyFrames :
                (IsWeightFrame(data) /\ IsToEmit(data)) =>
                   IsDecodedFrom(Outcome(data).emit[1], data))
    /\ [][ \A data \in NotifyFrames :
              (Deliver(data) /\ IsWeightFrame(data) /\ IsToEmit(data)) =>
                 IsDecodedFrom(measurement_data', data) ]_vars

\* C23 witness: under the Alternative variant at weight scale 100 a final
\* frame with weight bytes 0x00 0x64 was delivered and the callback received
\* 0.1 kg, resistance1 500 and resistance2 50.
C23_Witness ==
    /\ heard = <<WeightFrame(1, 1, 100, 500)>>
    /\ ~was_latched
    /\ ~use_first_type
    /\ weight_scale = 100
    /\ measurement_event
    /\ measurement_data # Empty
    /\ measurement_data.weight = 100
    /\ measurement_data.resistance1 = 500
    /\ measurement_data.resistance2 = 50

---------------------------------------------------------------------------
(* _calculate_impedance on its own: applied to every 16-bit resistance1    *)

\* the largest value _decode_integer_value returns
MaxResistance == 65535

InitImpedance ==
    /\ SessionInit
    /\ cmd = 0
    /\ ptype = 0
    /\ payload = <<>>
    /\ frame = <<>>
    /\ decoded = <<>>
    /\ resistance1 \in 0..MaxResistance
    /\ impedance = <<>>

\* impedance = self._calculate_impedance(resistance1)
Calculate ==
    /\ impedance = <<>>
    /\ impedance' = <<CalculateImpedance(resistance1)>>
    /\ UNCHANGED <<clientVars, subscribed, taskVars, replies, coordVars, histVars,
                   codecVars, resistance1, obsVars>>

NextImpedance == Calculate

SpecImpedance == InitImpedance /\ [][NextImpedance]_vars

\* C24: for every resistance1 in 0..65535 the impedance (in tenths of an
\* ohm) is 3.0 when resistance1 is below 410 and 0.3 * (resistance1 - 400)
\* otherwise, so 400 gives 3.0 and 500 gives 30.0; it is never below 3.0 and
\* it does not decrease when resistance1 grows by one.
C24_Impedance ==
    impedance # <<>> =>
       /\ resistance1 < 410 => impedance[1] = 30
       /\ resistance1 >= 410 => impedance[1] = 3 * (resistance1 - 400)
       /\ resistance1 = 400 => impedance[1] = 30
       /\ resistance1 = 500 => impedance[1] = 300
       /\ impedance[1] >= 30
       /\ resistance1 < MaxResistance => impedance[1] <= CalculateImpedance(resistance1 + 1)

\* C24 witness: the impedance of resistance1 = 500 was calculated and is 30.0.
C24_Witness == resistance1 = 500 /\ impedance = <<300>>

---------------------------------------------------------------------------
(* Claims about the characteristics, the replies and the calls made       *)
(* without a connection                                                    *)

\* The characteristics of a variant (use_first_type) and what each step
\* after the probe uses under it
VariantChars(uft) == IF uft THEN {FFE1, FFE2, FFE3, FFE4} ELSE {FFF1, FFF2}

CharOf(step, uft) ==
    CASE step = "sub_ffe1"  -> FFE1
      [] step = "sub_ffe2"  -> FFE2
      [] step = "sub_fff1"  -> FFF1
      [] step = "request"   -> IF uft THEN FFE3 ELSE FFF2
      [] step = "time_sync" -> IF uft THEN FFE4 ELSE FFF2

\* The subscriptions of a variant
SubscriptionsOf(uft) == IF uft THEN {"sub_ffe1", "sub_ffe2"} ELSE {"sub_fff1"}

\* C25: the detected variant fixes the characteristics used. Every transport
\* call start_measurement issues after the probe is one of the detected
\* variant (Primary: subscriptions to ffe1 and ffe2, request to ffe3, time
\* sync to ffe4; Alternative: subscription to fff1, request and time sync to
\* fff2), every reply write goes to ffe3 under Primary and fff2 under
\* Alternative, and the calls one start_measurement has issued after its
\* probe are all on characteristics of one variant.
C25_VariantFixesCharacteristics ==
    /\ [](\A t \in Tasks :
             \/ \A i \in 2..Len(log[t]) : log[t][i].char \in VariantChars(TRUE)
             \/ \A i \in 2..Len(log[t]) : log[t][i].char \in VariantChars(FALSE))
    /\ [][ /\ \A t \in Tasks :
                 (Len(log'[t]) = Len(log[t]) + 1 /\ Len(log'[t]) > 1) =>
                    LET e == log'[t][Len(log'[t])] IN
                    /\ e.step \in SubscriptionsOf(use_first_type') \cup {"request", "time_sync"}
                    /\ e.char = CharOf(e.step, use_first_type')
           /\ \A i \in 1..MaxReplies :
                 (ReplyStart(i) /\ Len(replies') = Len(replies)) =>
                    replies'[i].char = IF use_first_type THEN FFE3 ELSE FFF2 ]_vars


\* The frames of the replies: a handshake frame and a settings frame that
\* are answered, an unsteady and a final weight frame that are not
SendFrames ==
    { <<20, 3, 1>>, <<18, 11, 1, 0, 0, 0, 0, 0, 0, 0, 0>>,
      WeightFrame(1, 0, 100, 500), WeightFrame(1, 1, 100, 500) }

\* The scale sends frames, the reply tasks run, another task disconnects.
NextSend ==
    \/ \E data \in SendFrames : Deliver(data)
    \/ \E i \in 1..MaxReplies : ReplyStart(i)
    \/ \E i \in 1..MaxReplies, ok \in BOOLEAN : ReplyDone(i, ok)
    \/ \E t \in Tasks \ {Coord} : DisconnectCall(t)
    \/ \E t \in Tasks \ {Coord}, res \in {"ok", "bleak_error", "error"} : DisconnectDone(t, res)

SpecSend == InitNotify /\ [][NextSend]_vars

\* C26: replies are fire-and-forget. The handler returns with its reply only
\* scheduled (no write of it started); while a reply is scheduled or its
\* write is in flight, frames are still dispatched; and a reply write that
\* fails, or is skipped because the client is not connected, changes no
\* field of the client, no subscription, no caller's state and nothing of
\* the coordinator.
C26_FireAndForget ==
    /\ [](replies # <<>> /\ subscribed \cap {FFE1, FFF1} # {}
             => ENABLED (\E data \in SendFrames : Deliver(data)))
    /\ [][ \A data \in SendFrames :
              Deliver(data) =>
                 replies' = replies \o [i \in 1..Len(Outcome(data).reply) |->
                                          [msg |-> Outcome(data).reply[i], char |-> "none"]]
         ]_vars
    /\ [][ \A i \in 1..MaxReplies :
              (ReplyDone(i, FALSE) \/ (ReplyStart(i) /\ (~client \/ ~connected))) =>
                 /\ replies' = Remove(replies, i)
                 /\ UNCHANGED <<clientVars, subscribed, taskVars, coordVars, histVars>>
         ]_vars

\* C26 witness: a reply write is in flight to ffe3 and a weight frame, which
\* schedules no reply, has been dispatched after the frame that scheduled it.
C26_Witness ==
    /\ Len(replies) = 1
    /\ replies[1].char = FFE3
    /\ heard = <<WeightFrame(1, 0, 100, 500)>>


\* C27: start_measurement called while the client is not connected (never
\* connected, after a connect that failed, or after disconnect) returns
\* False, issues no transport call and changes no field of the client, no
\* subscription, no reply and nothing of the coordinator.
C27_NotConnectedReturnsFalse ==
    [][ \A t \in Tasks, u \in {"kg", "lb"} :
          (StartMeasurement(t, u) /\ (~connected \/ ~client)) =>
             /\ ret'[t] = "false"
             /\ pc'[t] = "idle"
             /\ UNCHANGED <<inflight, log, stale>>
             /\ UNCHANGED <<clientVars, subscribed, replies, coordVars>> ]_vars

\* C27 witness: on a client that was connected and is no longer, the caller's
\* start_measurement returned False without a transport call.
C27_Witness ==
    /\ client
    /\ ~connected
    /\ ret["caller"] = "false"
    /\ last["caller"] = NoLast
    /\ pc["caller"] = "idle"
    /\ inflight["caller"] = NoOp


---------------------------------------------------------------------------
(* What outlives a request: the session with a final reading and a         *)
(* settings frame that lowers the weight scale                             *)

CarryFrames == { WeightFrame(1, 1, 100, 500), <<18, 11, 1, 0, 0, 0, 0, 0, 0, 0, 0>> }

\* The coordinator refreshes, another task connects and disconnects, the
\* scale sends a final reading or its settings.
NextCarry ==
    \/ RefreshBegin
    \/ \E ok \in BOOLEAN : ProbeDone(Coord, ok)
    \/ \E ok \in BOOLEAN : SubscribeDone(Coord, ok)
    \/ \E ok \in BOOLEAN : RequestDone(Coord, ok)
    \/ \E ok \in BOOLEAN : TimeSyncDone(Coord, ok)
    \/ RefreshReturn
    \/ RefreshTimeout
    \/ \E t \in Tasks \ {Coord} : ConnectCall(t)
    \/ \E t \in Tasks \ {Coord}, res \in {"ok", "bleak_error", "error"} : ConnectDone(t, res)
    \/ \E t \in Tasks \ {Coord} : DisconnectCall(t)
    \/ \E t \in Tasks \ {Coord}, res \in {"ok", "bleak_error", "error"} : DisconnectDone(t, res)
    \/ \E data \in CarryFrames : Notify(data)
    \/ \E i \in 1..MaxReplies : ReplyStart(i)
    \/ \E i \in 1..MaxReplies, ok \in BOOLEAN : ReplyDone(i, ok)

SpecCarry == Init /\ [][NextCarry]_vars

\* C28: start_measurement, connect and disconnect never modify the latch,
\* the weight scale or the cached protocol type: every step that changes one
\* of them is the handling of a notification; so when a refresh starts its
\* start_measurement with the latch set, the latch is still set afterwards.
C28_OnlyNotificationsChangeDecodeState ==
    [][ /\ \/ UNCHANGED <<final_measure_received, weight_scale, seen_protocol_type>>
           \/ \E data \in CarryFrames : Notify(data)
        /\ (RefreshBegin /\ final_measure_received) => final_measure_received' ]_vars

\* C28 witness: the latch set by one request is set, and the weight scale
\* still 10, while the next request's start_measurement awaits its probe
\* write, after a disconnect and a new connect in between.
C28_Witness ==
    /\ final_measure_received
    /\ rstate = "starting"
    /\ pc[Coord] = "probe"
    /\ rresult # Empty
    /\ subscribed = {}
    /\ seen_protocol_type = 1
    /\ weight_scale = 10


---------------------------------------------------------------------------
(* Claims about the measurement a refresh returns (checked under Spec)     *)

\* C29: a measurement returned by a refresh was emitted after that refresh's
\* own request write was issued: the measurement _async_update_data returns
\* is never one that the callback stored between the clearing of the
\* previous result and the request write of this refresh.
C29_ResultAfterRequest == [][ RefreshReturn => ~early ]_vars


\* Whether the coordinator's last start_measurement returned False because
\* its request write or its time-sync write raised (the subscriptions having
\* been started), and no start_measurement has been called since
FailedAfterSubscribing ==
    /\ pc[Coord] = "idle"
    /\ ret[Coord] = "false"
    /\ last[Coord].step \in {"request", "time_sync"}
    /\ ~last[Coord].ok

\* C30: a request whose start_measurement returned False never produces a
\* measurement: after a start_measurement that failed at its request write
\* or its time-sync write, no frame invokes the callback until a later
\* start_measurement is called.
C30_FailedRequestEmitsNothing ==
    [][ \A data \in SessionFrames :
          (Notify(data) /\ FailedAfterSubscribing) =>
             /\ Outcome(data).emit = <<>>
             /\ UNCHANGED <<measurement_data, measurement_event, cbCount>> ]_vars

====
